---- MODULE Spec2Model ----
(***************************************************************************)
(* Orchestration core of the multi-agent system: the PlannerAgent's        *)
(* keyword planner (core/planner_agent.py) and the Orchestrator's          *)
(* process_goal pipeline (core/orchestrator.py), with the response         *)
(* builders of BaseAgent (core/base_agent.py).                             *)
(*                                                                         *)
(* Python strings are sequences of one-character strings, so that          *)
(* str.lower() and the substring test `kw in goal_lower` are computed.     *)
(* Python dicts are records wrapped as [type |-> "dict", items |-> ...].   *)
(***************************************************************************)
EXTENDS Integers, Sequences, FiniteSets, TLC

VARIABLES
  entry,             \* the operation that was called: "process_goal", "_execute_plan", "create_plan", "refine_plan"
  pc,                \* position of the call
  user_goal,         \* the goal string
  plan,              \* the dict returned by PlannerAgent.create_plan, or None
  inferred,          \* the list returned by Orchestrator._infer_agent_sequence, or None
  plan_result,       \* what self.planner.process returned (process_goal)
  execution_plan,    \* the plan process_goal settled on
  agent_sequence,    \* the list handed to _execute_plan
  pos,               \* index in agent_sequence of the next iteration of the for loop
  accumulated_data,  \* the dict _execute_plan builds and returns
  invocations,       \* history: every agent.process call, its agent_input and what it did
  goal_achieved,     \* the value _assess_goal_achievement returned, or None
  final_result,      \* the value process_goal returned, or None
  config,            \* what Config() read from the environment: the API keys
  calls,             \* concurrent process_goal calls: the locals of each coroutine
  frames             \* concurrent process_goal calls: the accumulated_data dicts

vars == <<entry, pc, user_goal, plan, inferred, plan_result, execution_plan,
          agent_sequence, pos, accumulated_data, invocations,
          goal_achieved, final_result, config, calls, frames>>

\* ------------------------------------------------------------------------
\* Bounds of the model
\* ------------------------------------------------------------------------
MaxGoalTokens == 2
MaxSeqLen == 3

\* ------------------------------------------------------------------------
\* Python values
\* ------------------------------------------------------------------------
None == [type |-> "NoneType"]
Dict(items) == [type |-> "dict", items |-> items]
List(elems) == [type |-> "list", elems |-> elems]
Str(s) == [type |-> "str", str |-> s]
Bool(b) == [type |-> "bool", bool |-> b]
isinstance_dict(v) == v.type = "dict"
\* dict.get(key, default) and `key in dict`
Get(d, key, default) == IF key \in DOMAIN d.items THEN d.items[key] ELSE default
HasKey(d, key) == key \in DOMAIN d.items

\* str.lower(), on the letters goals are written with
UpperCase == <<"A","B","C","D","E","F","G","H","I","J","K","L","M",
               "N","O","P","Q","R","S","T","U","V","W","X","Y","Z">>
LowerCase == <<"a","b","c","d","e","f","g","h","i","j","k","l","m",
               "n","o","p","q","r","s","t","u","v","w","x","y","z">>
LowerChar(c) ==
  IF \E k \in 1..26 : UpperCase[k] = c
  THEN LowerCase[CHOOSE k \in 1..26 : UpperCase[k] = c]
  ELSE c
lower(s) == [k \in 1..Len(s) |-> LowerChar(s[k])]

\* the substring test `keyword in text`
Contains(text, keyword) ==
  \E off \in 0..(Len(text) - Len(keyword)) :
    \A j \in 1..Len(keyword) : text[off + j] = keyword[j]
\* any(keyword in text for keyword in keywords)
AnyKeyword(text, keywords) ==
  \E k \in 1..Len(keywords) : Contains(text, keywords[k])

\* list membership `x in lst` and list.append
InList(x, lst) == \E k \in 1..Len(lst) : lst[k] = x
Elems(lst) == {lst[k] : k \in 1..Len(lst)}

\* ------------------------------------------------------------------------
\* String literals of the source and of the goals
\* ------------------------------------------------------------------------
K_spacex == <<"s","p","a","c","e","x">>
K_launch == <<"l","a","u","n","c","h">>
K_rocket == <<"r","o","c","k","e","t">>
K_falcon == <<"f","a","l","c","o","n">>
K_dragon == <<"d","r","a","g","o","n">>
K_weather == <<"w","e","a","t","h","e","r">>
K_forecast == <<"f","o","r","e","c","a","s","t">>
K_temperature == <<"t","e","m","p","e","r","a","t","u","r","e">>
K_conditions == <<"c","o","n","d","i","t","i","o","n","s">>
K_delay == <<"d","e","l","a","y">>
K_news == <<"n","e","w","s">>
K_latest == <<"l","a","t","e","s","t">>
K_trend == <<"t","r","e","n","d">>
K_market == <<"m","a","r","k","e","t">>
K_crypto == <<"c","r","y","p","t","o">>
K_analyze == <<"a","n","a","l","y","z","e">>
K_analysis == <<"a","n","a","l","y","s","i","s">>
K_correlation == <<"c","o","r","r","e","l","a","t","i","o","n">>
K_insight == <<"i","n","s","i","g","h","t">>
K_summary == <<"s","u","m","m","a","r","y">>
K_summarize == <<"s","u","m","m","a","r","i","z","e">>
K_report == <<"r","e","p","o","r","t">>
K_conclude == <<"c","o","n","c","l","u","d","e">>
K_wind == <<"w","i","n","d">>
K_rain == <<"r","a","i","n">>
K_sentiment == <<"s","e","n","t","i","m","e","n","t">>
K_media == <<"m","e","d","i","a">>
K_stock == <<"s","t","o","c","k">>
K_trading == <<"t","r","a","d","i","n","g">>
K_investment == <<"i","n","v","e","s","t","m","e","n","t">>
K_assets == <<"a","s","s","e","t","s">>
T_SpaceX == <<"S","p","a","c","e","X">>
T_MARKET == <<"M","A","R","K","E","T">>
T_hello == <<"h","e","l","l","o">>
T_space == <<"s","p","a","c","e">>
T_x == <<"x">>
T_sp == <<" ">>
GoalScenarioA ==
  <<"F","i","n","d"," ","t","h","e"," ","n","e","x","t"," ","S","p","a","c","e","X"," ","l","a","u","n","c","h"," ","a","n","d"," ","c","h","e","c","k"," ","w","e","a","t","h","e","r"," ","c","o","n","d","i","t","i","o","n","s">>
GoalScenarioB ==
  <<"G","e","t"," ","t","h","e"," ","l","a","t","e","s","t"," ","S","p","a","c","e","X"," ","l","a","u","n","c","h"," ","i","n","f","o"," ","a","n","d"," ","a","n","a","l","y","z","e"," ","m","a","r","k","e","t"," ","i","m","p","a","c","t">>
GoalComplexChain ==
  <<"F","i","n","d"," ","t","h","e"," ","n","e","x","t"," ","S","p","a","c","e","X"," ","l","a","u","n","c","h",","," ","c","h","e","c","k"," ","w","e","a","t","h","e","r"," ","a","t"," ","t","h","a","t"," ","l","o","c","a","t","i","o","n",","," ","t","h","e","n"," ","s","u","m","m","a","r","i","z","e"," ","i","f"," ","i","t"," ","m","a","y"," ","b","e"," ","d","e","l","a","y","e","d">>
GoalMarketAnalysis ==
  <<"G","e","t"," ","t","h","e"," ","l","a","t","e","s","t"," ","S","p","a","c","e","X"," ","l","a","u","n","c","h"," ","i","n","f","o"," ","a","n","d"," ","a","n","a","l","y","z","e"," ","m","a","r","k","e","t"," ","i","m","p","a","c","t"," ","o","n"," ","s","p","a","c","e","-","r","e","l","a","t","e","d"," ","a","s","s","e","t","s">>

\* ------------------------------------------------------------------------
\* Goals: the goals of the evaluation harness, every keyword on its own, and
\* every concatenation of at most MaxGoalTokens tokens (the separator is a
\* token, so that keywords also meet without one)
\* ------------------------------------------------------------------------
AllKeywords ==
  {K_spacex, K_launch, K_rocket, K_falcon, K_dragon, K_weather, K_forecast,
   K_temperature, K_conditions, K_delay, K_news, K_latest, K_trend, K_market,
   K_crypto, K_analyze, K_analysis, K_correlation, K_insight, K_summary,
   K_summarize, K_report, K_conclude, K_wind, K_rain, K_sentiment, K_media,
   K_stock, K_trading, K_investment, K_assets}
Tokens ==
  {T_SpaceX, K_launch, K_weather, K_delay, K_wind, K_news, K_market, T_MARKET,
   K_trend, K_analysis, K_report, K_stock, T_hello, T_sp, T_space, T_x}
\* a goal whose words select three registered agents
GoalThreeAgents == K_spacex \o <<" ">> \o K_weather \o <<" ">> \o K_news
ScenarioGoals ==
  {GoalScenarioA, GoalScenarioB, GoalComplexChain, GoalMarketAnalysis, GoalThreeAgents}
RECURSIVE Flatten(_)
Flatten(ts) == IF ts = <<>> THEN <<>> ELSE Head(ts) \o Flatten(Tail(ts))
TokenSeqs == UNION {[1..m -> Tokens] : m \in 0..MaxGoalTokens}
Goals == ScenarioGoals \cup AllKeywords \cup {Flatten(ts) : ts \in TokenSeqs}

\* ------------------------------------------------------------------------
\* PlannerAgent (core/planner_agent.py)
\* ------------------------------------------------------------------------
PlannerSpacexKeywords == <<K_spacex, K_launch, K_rocket, K_falcon, K_dragon>>
PlannerWeatherKeywords == <<K_weather, K_forecast, K_temperature, K_conditions, K_delay>>
PlannerNewsKeywords == <<K_news, K_latest, K_trend, K_market, K_crypto>>
PlannerAnalysisKeywords == <<K_analyze, K_analysis, K_correlation, K_trend, K_insight>>
PlannerSummaryKeywords == <<K_summary, K_summarize, K_report, K_conclude>>

\* required_agents.append(name) when cond holds
AppendIf(cond, lst, name) == IF cond THEN Append(lst, name) ELSE lst


\* variant: the padding of short candidate lists is left out
_analyze_goal_requirements_unpadded(goal) ==
  LET goal_lower == lower(goal)
      r1 == AppendIf(AnyKeyword(goal_lower, PlannerSpacexKeywords), <<>>, "spacex")
      r2 == AppendIf(AnyKeyword(goal_lower, PlannerWeatherKeywords), r1, "weather")
      r3 == AppendIf(AnyKeyword(goal_lower, PlannerNewsKeywords), r2, "news")
      r4 == AppendIf(AnyKeyword(goal_lower, PlannerAnalysisKeywords), r3, "analysis")
  IN  AppendIf(AnyKeyword(goal_lower, PlannerSummaryKeywords) \/ Len(r4) > 1,
               r4, "summary")
\* variant: a lone spacex candidate gets summary but no weather companion
_analyze_goal_requirements_no_companion(goal) ==
  LET goal_lower == lower(goal)
      r1 == AppendIf(AnyKeyword(goal_lower, PlannerSpacexKeywords), <<>>, "spacex")
      r2 == AppendIf(AnyKeyword(goal_lower, PlannerWeatherKeywords), r1, "weather")
      r3 == AppendIf(AnyKeyword(goal_lower, PlannerNewsKeywords), r2, "news")
      r4 == AppendIf(AnyKeyword(goal_lower, PlannerAnalysisKeywords), r3, "analysis")
      r5 == AppendIf(AnyKeyword(goal_lower, PlannerSummaryKeywords) \/ Len(r4) > 1,
                     r4, "summary")
  IN  IF Len(r5) < 2 THEN Append(r5, "summary") ELSE r5
_analyze_goal_requirements(goal) ==
  LET goal_lower == lower(goal)
      r1 == AppendIf(AnyKeyword(goal_lower, PlannerSpacexKeywords), <<>>, "spacex")
      r2 == AppendIf(AnyKeyword(goal_lower, PlannerWeatherKeywords), r1, "weather")
      r3 == AppendIf(AnyKeyword(goal_lower, PlannerNewsKeywords), r2, "news")
      r4 == AppendIf(AnyKeyword(goal_lower, PlannerAnalysisKeywords), r3, "analysis")
      r5 == AppendIf(AnyKeyword(goal_lower, PlannerSummaryKeywords) \/ Len(r4) > 1,
                     r4, "summary")
  IN  IF Len(r5) < 2
      THEN Append(AppendIf(InList("spacex", r5), r5, "weather"), "summary")
      ELSE r5


\* variant: weather is only placed after spacex, the elif branch is missing
_determine_sequence_weather_dropped(required_agents, goal) ==
  LET s1 == AppendIf(InList("spacex", required_agents), <<>>, "spacex")
      s2 == AppendIf(InList("weather", required_agents) /\ InList("spacex", s1),
                     s1, "weather")
      s3 == AppendIf(InList("news", required_agents), s2, "news")
      s4 == AppendIf(InList("analysis", required_agents), s3, "analysis")
  IN  AppendIf(InList("summary", required_agents), s4, "summary")

\* variant: weather is always inserted at the front
_determine_sequence_weather_first(required_agents, goal) ==
  LET s1 == AppendIf(InList("spacex", required_agents), <<>>, "spacex")
      s2 == IF InList("weather", required_agents) THEN <<"weather">> \o s1 ELSE s1
      s3 == AppendIf(InList("news", required_agents), s2, "news")
      s4 == AppendIf(InList("analysis", required_agents), s3, "analysis")
  IN  AppendIf(InList("summary", required_agents), s4, "summary")
_determine_sequence(required_agents, goal) ==
  LET s1 == AppendIf(InList("spacex", required_agents), <<>>, "spacex")
      s2 == IF InList("weather", required_agents) /\ InList("spacex", s1)
            THEN Append(s1, "weather")
            ELSE IF InList("weather", required_agents)
                 THEN <<"weather">> \o s1
                 ELSE s1
      s3 == AppendIf(InList("news", required_agents), s2, "news")
      s4 == AppendIf(InList("analysis", required_agents), s3, "analysis")
  IN  AppendIf(InList("summary", required_agents), s4, "summary")

\* dependencies[agent] = [] for the first position, [predecessor] otherwise;
\* a later occurrence of a name overwrites an earlier one
_create_dependencies(seq) ==
  [a \in Elems(seq) |->
     LET i == CHOOSE k \in 1..Len(seq) :
                seq[k] = a /\ \A m \in (k+1)..Len(seq) : seq[m] # a
     IN  IF i = 1 THEN <<>> ELSE <<seq[i - 1]>>]

flow_descriptions ==
  [spacex   |-> "Fetch SpaceX launch data and mission information",
   weather  |-> "Get weather conditions for launch location",
   news     |-> "Gather relevant news and trend information",
   analysis |-> "Analyze gathered data for insights and correlations",
   summary  |-> "Create comprehensive summary and final report"]

_create_expected_flow(seq, goal) ==
  [a \in Elems(seq) |->
     IF a \in DOMAIN flow_descriptions THEN flow_descriptions[a] ELSE "Process data through agent"]

create_plan(goal) ==
  LET required_agents == _analyze_goal_requirements(goal)
      seq == _determine_sequence(required_agents, goal)
  IN  Dict([goal           |-> goal,
            agent_sequence |-> seq,
            dependencies   |-> _create_dependencies(seq),
            expected_flow  |-> _create_expected_flow(seq, goal)])

\* PlannerAgent.refine_plan: every branch of the loop appends the agent it
\* looks at, then summary is appended when the sequence lacks it
refine_plan(original_plan, current_result, goal) ==
  LET execution_trace == Get(current_result, "execution_trace", <<>>)
      HasError(step) == HasKey(step, "error")
      failed_steps == SelectSeq(execution_trace, HasError)
      failed_agents == [k \in 1..Len(failed_steps) |-> failed_steps[k].items.agent]
      original_sequence == original_plan.items.agent_sequence
      kept == [k \in 1..Len(original_sequence) |-> original_sequence[k]]
      refined_sequence == AppendIf(~InList("summary", kept), kept, "summary")
  IN  Dict([goal              |-> goal,
            agent_sequence    |-> refined_sequence,
            dependencies      |-> _create_dependencies(refined_sequence),
            expected_flow     |-> _create_expected_flow(refined_sequence, goal),
            refinement_reason |-> failed_agents])
\* PlannerAgent.process: the planner's BaseAgent entry point
PlannerProcess(data) ==
  Dict([agent |-> "PlannerAgent", status |-> "completed", message |-> "Planning completed"])

\* ------------------------------------------------------------------------
\* Orchestrator._infer_agent_sequence (core/orchestrator.py)
\* ------------------------------------------------------------------------
OrchSpacexKeywords == <<K_spacex, K_launch, K_rocket, K_falcon, K_dragon>>
OrchWeatherKeywords == <<K_weather, K_delay, K_conditions, K_wind, K_rain>>
OrchNewsKeywords == <<K_news, K_sentiment, K_analysis, K_media>>
OrchMarketKeywords == <<K_market, K_stock, K_trading, K_investment, K_assets>>

_infer_agent_sequence(goal) ==
  LET goal_lower == lower(goal)
      a1 == AppendIf(AnyKeyword(goal_lower, OrchSpacexKeywords), <<>>, "spacex")
      a2 == AppendIf(AnyKeyword(goal_lower, OrchWeatherKeywords), a1, "weather")
      a3 == AppendIf(AnyKeyword(goal_lower, OrchNewsKeywords), a2, "news")
      a4 == AppendIf(AnyKeyword(goal_lower, OrchMarketKeywords), a3, "market")
  IN  IF a4 = <<>> THEN <<"spacex">> ELSE a4

_create_default_plan(goal) ==
  Dict([agent_sequence |-> _infer_agent_sequence(goal),
        plan_type      |-> "default",
        reasoning      |-> "Default plan created due to planner issues"])

\* ------------------------------------------------------------------------
\* BaseAgent (core/base_agent.py) and the registered agents
\* ------------------------------------------------------------------------
create_error_response(name, error_message) ==
  Dict([agent |-> name, status |-> "error", error |-> error_message, data |-> None])

create_success_response(name, data, message) ==
  Dict([agent |-> name, status |-> "success", message |-> message, data |-> data])

\* input_data.get('previous_outputs', {}).get(agent_name, {}).get('data')
extract_previous_data(input_data, agent_name) ==
  LET previous_outputs == Get(input_data, "previous_outputs", <<>>)
      previous == IF agent_name \in DOMAIN previous_outputs
                  THEN previous_outputs[agent_name]
                  ELSE Dict(<<>>)
  IN  Get(previous, "data", None)
\* self.agents of Orchestrator.__init__: identifier -> BaseAgent.name
agents ==
  [spacex  |-> "SpaceXAgent",
   weather |-> "WeatherAgent",
   news    |-> "NewsAgent",
   market  |-> "MarketAgent"]
Registered == DOMAIN agents

\* utils/config.py: os.getenv gives None for a variable that is not set
EmptyEnvironment == [openweather_api_key |-> None, newsapi_key |-> None]
\* what a call does: it returns a value or raises an Exception
Return(v) == [kind |-> "return", value |-> v]
Raise(msg) == [kind |-> "raise", exc |-> msg]

\* the documents the shipped agents build on success
Launch == Dict([name |-> Str("Starlink 12-5"), date_utc |-> Str("2026-11-20T10:00:00.000Z"),
                mission_success |-> None])
SpacexData == List(<<Launch>>)
WeatherData ==
  Dict([location |-> Str("Kennedy Space Center"),
        current_weather |-> Dict([description |-> Str("clear sky")]),
        forecast |-> List(<<>>),
        launch_conditions |-> Dict([recommendation |-> Str("GO")])])
NewsData ==
  Dict([space_news |-> List(<<>>),
        sentiment_analysis |-> Dict([overall_sentiment |-> Str("positive")])])
MarketData ==
  Dict([cryptocurrency_data |-> Dict(<<>>),
        market_sentiment |-> Dict([overall_score |-> [type |-> "float", repr |-> "0.25"]])])
SuccessData ==
  [spacex |-> SpacexData, weather |-> WeatherData, news |-> NewsData, market |-> MarketData]
SuccessMessage ==
  [spacex  |-> "Successfully fetched SpaceX upcoming_launches data",
   weather |-> "Successfully fetched weather data for Kennedy Space Center",
   news    |-> "Successfully fetched news with 0 space articles",
   market  |-> "Successfully fetched market data for 5 cryptocurrencies"]
FailureMessage ==
  [spacex  |-> "Failed to fetch SpaceX data: API request failed with status 500",
   weather |-> "OpenWeather API key not configured. Please set OPENWEATHER_API_KEY in your environment variables.",
   news    |-> "Failed to fetch news: Cannot connect to host",
   market  |-> "Failed to fetch market data: Cannot connect to host"]

\* the two returns of every shipped agent's process
StandardSuccess(agent_name) ==
  create_success_response(agents[agent_name], SuccessData[agent_name], SuccessMessage[agent_name])
StandardError(agent_name) ==
  create_error_response(agents[agent_name], FailureMessage[agent_name])
\* a result dict that carries the 'success' flag _execute_plan reads
FlaggedSuccess(agent_name) ==
  Dict([success |-> TRUE, data |-> SuccessData[agent_name]])

\* everything agent.process(agent_input) can do, as _execute_plan tells it apart
ProcessOutcomes(agent_name) ==
  {Return(StandardSuccess(agent_name)),
   Return(StandardError(agent_name)),
   Return(FlaggedSuccess(agent_name)),
   Return(Str("not a dict")),
   Raise("agent crashed")}

\* ------------------------------------------------------------------------
\* Orchestrator._execute_plan: one iteration of `for agent_name in agent_sequence`
\* ------------------------------------------------------------------------
InvalidFormatError ==
  [spacex  |-> "Agent spacex returned invalid result format",
   weather |-> "Agent weather returned invalid result format",
   news    |-> "Agent news returned invalid result format",
   market  |-> "Agent market returned invalid result format"]

\* dict[key] = value
SetItem(d, key, value) == [k \in DOMAIN d \cup {key} |-> IF k = key THEN value ELSE d[k]]

\* variant: only the immediate predecessor's result is passed on
agent_input_last_only(acc) ==
  LET n == Len(acc.agents_executed)
      last == IF n = 0 THEN {} ELSE {acc.agents_executed[n]}
  IN  Dict([goal |-> acc.goal,
            previous_results |-> [a \in last |-> acc.agent_results[a]],
            context |-> acc])
agent_input(acc) ==
  Dict([goal |-> acc.goal, previous_results |-> acc.agent_results, context |-> acc])

\* variant: the except branch stores the failure result but lists the agent nowhere
RecordException_not_listed(acc, agent_name, exc) ==
  [acc EXCEPT !.agent_results = SetItem(@, agent_name,
                  Dict([success |-> FALSE, error |-> exc, agent |-> agent_name]))]
\* the except branch
RecordException(acc, agent_name, exc) ==
  [acc EXCEPT !.agents_executed = Append(@, agent_name),
              !.failed_agents = Append(@, agent_name),
              !.agent_results = SetItem(@, agent_name,
                  Dict([success |-> FALSE, error |-> exc, agent |-> agent_name]))]


\* variant: the else of the success test is missing, failed_agents always grows
RecordResult_no_else(acc, agent_name, value) ==
  LET result == IF isinstance_dict(value)
                THEN value
                ELSE Dict([success |-> FALSE, error |-> InvalidFormatError[agent_name],
                           raw_result |-> value])
      stored == [acc EXCEPT !.agents_executed = Append(@, agent_name),
                            !.agent_results = SetItem(@, agent_name, result),
                            !.failed_agents = Append(@, agent_name)]
  IN  IF Get(result, "success", FALSE)
      THEN [stored EXCEPT !.successful_agents = Append(@, agent_name)]
      ELSE stored
\* variant: a result that is not a dict is replaced but the agent is not
\* listed as failed
RecordResult_invalid_unlisted(acc, agent_name, value) ==
  LET result == IF isinstance_dict(value)
                THEN value
                ELSE Dict([success |-> FALSE, error |-> InvalidFormatError[agent_name],
                           raw_result |-> value])
      stored == [acc EXCEPT !.agents_executed = Append(@, agent_name),
                            !.agent_results = SetItem(@, agent_name, result)]
  IN  IF Get(result, "success", FALSE)
      THEN [stored EXCEPT !.successful_agents = Append(@, agent_name)]
      ELSE IF isinstance_dict(value)
           THEN [stored EXCEPT !.failed_agents = Append(@, agent_name)]
           ELSE stored
\* the try branch after agent.process returned
RecordResult(acc, agent_name, value) ==
  LET result == IF isinstance_dict(value)
                THEN value
                ELSE Dict([success |-> FALSE, error |-> InvalidFormatError[agent_name],
                           raw_result |-> value])
      stored == [acc EXCEPT !.agents_executed = Append(@, agent_name),
                            !.agent_results = SetItem(@, agent_name, result)]
  IN  IF Get(result, "success", FALSE)
      THEN [stored EXCEPT !.successful_agents = Append(@, agent_name)]
      ELSE [stored EXCEPT !.failed_agents = Append(@, agent_name)]

ExecuteIteration(acc, agent_name, outcome) ==
  IF agent_name \notin Registered
  THEN acc
  ELSE IF outcome.kind = "raise"
       THEN RecordException(acc, agent_name, outcome.exc)
       ELSE RecordResult(acc, agent_name, outcome.value)

\* ------------------------------------------------------------------------
\* Orchestrator._assess_goal_achievement
\* ------------------------------------------------------------------------

\* variant: success_rate > 0.5
RateAboveHalf(successes, total) == 2 * successes > total
\* success_rate >= 0.5 for success_rate = successes / total, total > 0
RateAtLeastHalf(successes, total) == 2 * successes >= total


\* variant: the two targeted-agent checks are left out
_assess_goal_achievement_rate_only(goal, execution_result) ==
  LET successful_agents == execution_result.successful_agents
      total_agents == Len(execution_result.agents_executed)
      has_minimum_success == Len(successful_agents) >= 1
  IN  IF total_agents = 0 THEN FALSE
      ELSE RateAtLeastHalf(Len(successful_agents), total_agents) /\ has_minimum_success
_assess_goal_achievement(goal, execution_result) ==
  LET successful_agents == execution_result.successful_agents
      total_agents == Len(execution_result.agents_executed)
      has_minimum_success == Len(successful_agents) >= 1
      goal_lower == lower(goal)
  IN  IF total_agents = 0 THEN FALSE
      ELSE IF Contains(goal_lower, K_spacex) /\ ~InList("spacex", successful_agents) THEN FALSE
      ELSE IF Contains(goal_lower, K_market) /\ ~InList("market", successful_agents) THEN FALSE
      ELSE RateAtLeastHalf(Len(successful_agents), total_agents) /\ has_minimum_success

\* ------------------------------------------------------------------------
\* Orchestrator._create_summary: the summary is the list of clauses that
\* " | ".join puts together, or the fallback sentence; a section that hits an
\* AttributeError / TypeError / KeyError / ValueError raises
\* ------------------------------------------------------------------------
Clause(head, body) == [head |-> head, body |-> body]
FallbackText ==
  "All agents failed to retrieve data. Please check network connectivity and API configurations."
FallbackSummary == <<Clause(FallbackText, <<>>)>>
Clauses(cl) == [raised |-> FALSE, clauses |-> cl]
SectionRaises == [raised |-> TRUE, clauses |-> <<>>]

\* bool(v) and whether len(v) is defined
Truthy(v) ==
  CASE v.type = "NoneType" -> FALSE
    [] v.type = "dict" -> DOMAIN v.items # {}
    [] v.type = "list" -> Len(v.elems) > 0
    [] v.type = "str" -> v.str # ""
    [] OTHER -> TRUE
HasLen(v) == v.type \in {"dict", "list", "str"}
IsNumber(v) == v.type \in {"float", "int"}

SpacexSection(final_data, error_summary) ==
  IF "spacex" \in DOMAIN final_data
  THEN LET spacex_data == final_data["spacex"]
       IN  IF ~isinstance_dict(spacex_data) THEN Clauses(<<>>)
           ELSE IF HasKey(spacex_data, "launches")
           THEN LET launches == spacex_data.items["launches"]
                IN  IF ~Truthy(launches) THEN Clauses(<<>>)
                    ELSE IF ~HasLen(launches) THEN SectionRaises
                    ELSE IF launches.type = "list" /\ isinstance_dict(launches.elems[1])
                    THEN Clauses(<<Clause("Next SpaceX Launch: {name} on {date_utc}",
                                   <<Get(launches.elems[1], "name", Str("Unknown")),
                                     Get(launches.elems[1], "date_utc", Str("Unknown date"))>>)>>)
                    ELSE SectionRaises
           ELSE Clauses(<<Clause("SpaceX data retrieved successfully", <<>>)>>)
  ELSE IF "spacex" \in DOMAIN error_summary
       THEN Clauses(<<Clause("SpaceX data error: {error}", <<error_summary["spacex"]>>)>>)
       ELSE Clauses(<<>>)

WeatherSection(final_data, error_summary) ==
  IF "weather" \in DOMAIN final_data
  THEN LET weather_data == final_data["weather"]
       IN  IF ~isinstance_dict(weather_data) THEN Clauses(<<>>)
           ELSE IF HasKey(weather_data, "current")
           THEN LET weather == weather_data.items["current"]
                    conditions ==
                      Clause("Weather conditions: {description} ({temp}C, wind: {wind_speed} m/s)",
                             <<Get(weather, "description", Str("Unknown")),
                               Get(weather, "temp", Str("N/A")),
                               Get(weather, "wind_speed", Str("N/A"))>>)
                IN  IF ~isinstance_dict(weather) THEN SectionRaises
                    ELSE IF HasKey(weather_data, "launch_delay_risk")
                    THEN LET risk == weather_data.items["launch_delay_risk"]
                         IN  IF ~isinstance_dict(risk) THEN SectionRaises
                             ELSE Clauses(<<conditions,
                                            Clause("Launch delay risk: {level}",
                                                   <<Get(risk, "level", Str("Unknown"))>>)>>)
                    ELSE Clauses(<<conditions>>)
           ELSE Clauses(<<Clause("Weather data retrieved successfully", <<>>)>>)
  ELSE IF "weather" \in DOMAIN error_summary
       THEN Clauses(<<Clause("Weather data error: {error}", <<error_summary["weather"]>>)>>)
       ELSE Clauses(<<>>)

NewsSection(final_data, error_summary) ==
  IF "news" \in DOMAIN final_data
  THEN LET news_data == final_data["news"]
       IN  IF ~isinstance_dict(news_data) THEN Clauses(<<>>)
           ELSE IF HasKey(news_data, "sentiment_analysis")
           THEN LET sentiment_analysis == news_data.items["sentiment_analysis"]
                IN  IF ~isinstance_dict(sentiment_analysis) THEN SectionRaises
                    ELSE Clauses(<<Clause("News sentiment: {sentiment}",
                           <<Get(sentiment_analysis, "overall_sentiment", Str("Unknown"))>>)>>)
           ELSE Clauses(<<Clause("News data retrieved successfully", <<>>)>>)
  ELSE IF "news" \in DOMAIN error_summary
       THEN Clauses(<<Clause("News data error: {error}", <<error_summary["news"]>>)>>)
       ELSE Clauses(<<>>)

MarketSection(final_data, error_summary) ==
  IF "market" \in DOMAIN final_data
  THEN LET market_data == final_data["market"]
       IN  IF ~isinstance_dict(market_data) THEN Clauses(<<>>)
           ELSE IF HasKey(market_data, "market_sentiment")
           THEN LET market_sentiment == market_data.items["market_sentiment"]
                IN  IF ~isinstance_dict(market_sentiment) THEN SectionRaises
                    ELSE LET score == Get(market_sentiment, "overall_score", [type |-> "int", repr |-> "0"])
                         IN  IF ~IsNumber(score) THEN SectionRaises
                             ELSE Clauses(<<Clause("Market sentiment score: {score:.2f}", <<score>>)>>)
           ELSE Clauses(<<Clause("Market data retrieved successfully", <<>>)>>)
  ELSE IF "market" \in DOMAIN error_summary
       THEN Clauses(<<Clause("Market data error: {error}", <<error_summary["market"]>>)>>)
       ELSE Clauses(<<>>)

\* variant: the fallback sentence is returned whenever no agent succeeded
_create_summary_fallback_when_all_failed(goal, final_data, error_summary, successful_agents, failed_agents) ==
  LET overview ==
        (IF successful_agents # <<>>
         THEN <<Clause("Successfully executed: {}", successful_agents)>> ELSE <<>>)
        \o
        (IF failed_agents # <<>>
         THEN <<Clause("Failed agents: {}", failed_agents)>> ELSE <<>>)
      spacex == SpacexSection(final_data, error_summary)
      weather == WeatherSection(final_data, error_summary)
      news == NewsSection(final_data, error_summary)
      market == MarketSection(final_data, error_summary)
      summary_parts == overview \o spacex.clauses \o weather.clauses \o news.clauses \o market.clauses
  IN  IF spacex.raised \/ weather.raised \/ news.raised \/ market.raised
      THEN Raise("error while formatting the summary")
      ELSE IF successful_agents # <<>> THEN Return(summary_parts) ELSE Return(FallbackSummary)
_create_summary(goal, final_data, error_summary, successful_agents, failed_agents) ==
  LET overview ==
        (IF successful_agents # <<>>
         THEN <<Clause("Successfully executed: {}", successful_agents)>> ELSE <<>>)
        \o
        (IF failed_agents # <<>>
         THEN <<Clause("Failed agents: {}", failed_agents)>> ELSE <<>>)
      spacex == SpacexSection(final_data, error_summary)
      weather == WeatherSection(final_data, error_summary)
      news == NewsSection(final_data, error_summary)
      market == MarketSection(final_data, error_summary)
      summary_parts == overview \o spacex.clauses \o weather.clauses \o news.clauses \o market.clauses
  IN  IF spacex.raised \/ weather.raised \/ news.raised \/ market.raised
      THEN Raise("error while formatting the summary")
      ELSE IF summary_parts # <<>> THEN Return(summary_parts) ELSE Return(FallbackSummary)

\* ------------------------------------------------------------------------
\* Orchestrator._create_final_result and _check_and_iterate
\* ------------------------------------------------------------------------
Now == "datetime.now().isoformat()"

\* variant: the data map takes every result that carries a 'data' value
_create_final_result_data_by_key(goal, execution_result, achieved) ==
  LET agent_results == execution_result.agent_results
      succeeded == {a \in DOMAIN agent_results :
                      HasKey(agent_results[a], "data") /\ agent_results[a].items.data # None}
      final_data == [a \in succeeded |-> Get(agent_results[a], "data", Dict(<<>>))]
      error_summary == [a \in DOMAIN agent_results \ succeeded |->
                          Get(agent_results[a], "error", "Unknown error")]
      summary == _create_summary(goal, final_data, error_summary,
                                 execution_result.successful_agents,
                                 execution_result.failed_agents)
  IN  IF summary.kind = "raise" THEN summary
      ELSE Return(Dict([success           |-> achieved,
                        goal              |-> goal,
                        execution_chain   |-> execution_result.agents_executed,
                        successful_agents |-> execution_result.successful_agents,
                        failed_agents     |-> execution_result.failed_agents,
                        data              |-> final_data,
                        errors            |-> error_summary,
                        final_summary     |-> summary.value,
                        agent_details     |-> agent_results,
                        timestamp         |-> Now]))
\* variant: the errors map is only put in the report when an agent failed
_create_final_result_errors_when_any(goal, execution_result, achieved) ==
  LET agent_results == execution_result.agent_results
      succeeded == {a \in DOMAIN agent_results : Get(agent_results[a], "success", FALSE)}
      final_data == [a \in succeeded |-> Get(agent_results[a], "data", Dict(<<>>))]
      error_summary == [a \in DOMAIN agent_results \ succeeded |->
                          Get(agent_results[a], "error", "Unknown error")]
      summary == _create_summary(goal, final_data, error_summary,
                                 execution_result.successful_agents,
                                 execution_result.failed_agents)
      report == [success           |-> achieved,
                 goal              |-> goal,
                 execution_chain   |-> execution_result.agents_executed,
                 successful_agents |-> execution_result.successful_agents,
                 failed_agents     |-> execution_result.failed_agents,
                 data              |-> final_data,
                 final_summary     |-> summary.value,
                 agent_details     |-> agent_results,
                 timestamp         |-> Now]
  IN  IF summary.kind = "raise" THEN summary
      ELSE IF DOMAIN error_summary = {} THEN Return(Dict(report))
      ELSE Return(Dict([k \in DOMAIN report \cup {"errors"} |->
                          IF k = "errors" THEN error_summary ELSE report[k]]))
_create_final_result(goal, execution_result, achieved) ==
  LET agent_results == execution_result.agent_results
      succeeded == {a \in DOMAIN agent_results : Get(agent_results[a], "success", FALSE)}
      final_data == [a \in succeeded |-> Get(agent_results[a], "data", Dict(<<>>))]
      error_summary == [a \in DOMAIN agent_results \ succeeded |->
                          Get(agent_results[a], "error", "Unknown error")]
      summary == _create_summary(goal, final_data, error_summary,
                                 execution_result.successful_agents,
                                 execution_result.failed_agents)
  IN  IF summary.kind = "raise" THEN summary
      ELSE Return(Dict([success           |-> achieved,
                        goal              |-> goal,
                        execution_chain   |-> execution_result.agents_executed,
                        successful_agents |-> execution_result.successful_agents,
                        failed_agents     |-> execution_result.failed_agents,
                        data              |-> final_data,
                        errors            |-> error_summary,
                        final_summary     |-> summary.value,
                        agent_details     |-> agent_results,
                        timestamp         |-> Now]))

_check_and_iterate(goal, execution_result, plan_used) ==
  _create_final_result(goal, execution_result, _assess_goal_achievement(goal, execution_result))

\* the dict of process_goal's outer except branch
TopLevelFailure(exc) == Dict([success |-> FALSE, error |-> exc, timestamp |-> Now])

\* ------------------------------------------------------------------------
\* Orchestrator.process_goal, step 1: from the planner's answer to the agent
\* sequence
\* ------------------------------------------------------------------------
PlanResultOf(planner_outcome) ==
  IF planner_outcome.kind = "raise" THEN None ELSE planner_outcome.value

ExecutionPlanOf(result, goal) ==
  IF isinstance_dict(result)
  THEN IF Get(result, "success", FALSE) /\ HasKey(result, "data") THEN result.items["data"]
       ELSE IF HasKey(result, "agent_sequence") THEN result
       ELSE _create_default_plan(goal)
  ELSE _create_default_plan(goal)

\* execution_plan.get('agent_sequence', []), replaced by the inferred sequence when empty
AgentSequenceOf(plan_used, goal) ==
  IF ~isinstance_dict(plan_used) THEN Raise("object has no attribute 'get'")
  ELSE LET seq == Get(plan_used, "agent_sequence", <<>>)
       IN  Return(IF seq = <<>> THEN _infer_agent_sequence(goal) ELSE seq)

\* ------------------------------------------------------------------------
\* The planner called on its own: create_plan and _infer_agent_sequence
\* applied to a goal
\* ------------------------------------------------------------------------
EmptyAccumulated(goal) ==
  [goal |-> goal, agents_executed |-> <<>>, agent_results |-> <<>>,
   successful_agents |-> <<>>, failed_agents |-> <<>>]

InitPlanner ==
  /\ entry = "create_plan"
  /\ config = EmptyEnvironment
  /\ calls = <<>>
  /\ frames = <<>>
  /\ pc = "start"
  /\ user_goal \in Goals
  /\ plan = None
  /\ inferred = None
  /\ plan_result = None
  /\ execution_plan = None
  /\ agent_sequence = <<>>
  /\ pos = 1
  /\ accumulated_data = EmptyAccumulated(user_goal)
  /\ invocations = <<>>
  /\ goal_achieved = None
  /\ final_result = None

CreatePlan ==
  /\ entry = "create_plan"
  /\ plan = None
  /\ plan' = create_plan(user_goal)
  /\ UNCHANGED <<config, calls, frames, entry, pc, user_goal, inferred, plan_result, execution_plan,
                 agent_sequence, pos, accumulated_data, invocations,
                 goal_achieved, final_result>>

InferAgentSequence ==
  /\ entry = "create_plan"
  /\ inferred = None
  /\ inferred' = List(_infer_agent_sequence(user_goal))
  /\ UNCHANGED <<config, calls, frames, entry, pc, user_goal, plan, plan_result, execution_plan,
                 agent_sequence, pos, accumulated_data, invocations,
                 goal_achieved, final_result>>

\* the current_result refine_plan is given: without a trace, and with a trace
\* whose spacex step carries an error
CurrentResults ==
  {Dict(<<>>),
   Dict([execution_trace |-> <<Dict([agent |-> "spacex", error |-> "API request failed"]),
                               Dict([agent |-> "weather"])>>])}

RefinePlan ==
  /\ entry = "create_plan"
  /\ plan # None
  /\ ~HasKey(plan, "refinement_reason")
  /\ \E current_result \in CurrentResults :
       plan' = refine_plan(plan, current_result, user_goal)
  /\ UNCHANGED <<config, calls, frames, entry, pc, user_goal, inferred, plan_result, execution_plan,
                 agent_sequence, pos, accumulated_data, invocations,
                 goal_achieved, final_result>>

NextPlanner == CreatePlan \/ InferAgentSequence \/ RefinePlan
SpecPlanner == InitPlanner /\ [][NextPlanner]_vars

\* ------------------------------------------------------------------------
\* refine_plan called on its own: any original plan, any current result
\* ------------------------------------------------------------------------
PlanIdentifiers == DOMAIN flow_descriptions \cup {"market"}
OriginalSequences == UNION {[1..n -> PlanIdentifiers] : n \in 0..MaxSeqLen}
OriginalPlans(goal) ==
  {Dict([goal           |-> goal,
         agent_sequence |-> seq,
         dependencies   |-> _create_dependencies(seq),
         expected_flow  |-> _create_expected_flow(seq, goal)]) : seq \in OriginalSequences}
RefineResults ==
  CurrentResults \cup
  {Dict([execution_trace |-> <<Dict([agent |-> "summary", error |-> "no data"])>>])}

InitRefine ==
  /\ entry = "refine_plan"
  /\ config = EmptyEnvironment
  /\ calls = <<>>
  /\ frames = <<>>
  /\ pc = "start"
  /\ user_goal \in {GoalScenarioA, GoalComplexChain}
  /\ plan \in OriginalPlans(user_goal)
  /\ inferred = None
  /\ plan_result = None
  /\ execution_plan = None
  /\ agent_sequence = <<>>
  /\ pos = 1
  /\ accumulated_data = EmptyAccumulated(user_goal)
  /\ invocations = <<>>
  /\ goal_achieved = None
  /\ final_result = None

\* execution_plan keeps the original plan, plan becomes the refined one
RefineOriginalPlan ==
  /\ entry = "refine_plan"
  /\ pc = "start"
  /\ \E current_result \in RefineResults :
       plan' = refine_plan(plan, current_result, user_goal)
  /\ execution_plan' = plan
  /\ pc' = "done"
  /\ UNCHANGED <<config, calls, frames, entry, user_goal, inferred, plan_result, agent_sequence, pos,
                 accumulated_data, invocations, goal_achieved, final_result>>

NextRefine == RefineOriginalPlan
SpecRefine == InitRefine /\ [][NextRefine]_vars
PlannedSequence == plan.items.agent_sequence

\* ------------------------------------------------------------------------
\* process_goal(user_goal) as the program runs it: the shipped planner, then
\* one step per awaited agent call, then assessment and report
\* ------------------------------------------------------------------------
Init ==
  /\ entry = "process_goal"
  /\ config = EmptyEnvironment
  /\ calls = <<>>
  /\ frames = <<>>
  /\ pc = "plan"
  /\ user_goal \in Goals
  /\ plan = None
  /\ inferred = None
  /\ plan_result = None
  /\ execution_plan = None
  /\ agent_sequence = <<>>
  /\ pos = 1
  /\ accumulated_data = EmptyAccumulated(user_goal)
  /\ invocations = <<>>
  /\ goal_achieved = None
  /\ final_result = None

\* lines 45-86: await self.planner.process, choose the plan, get the sequence
PlanWith(planner_outcome) ==
  /\ entry = "process_goal"
  /\ pc = "plan"
  /\ LET result == PlanResultOf(planner_outcome)
         plan_used == ExecutionPlanOf(result, user_goal)
         seq == AgentSequenceOf(plan_used, user_goal)
     IN  /\ plan_result' = result
         /\ execution_plan' = plan_used
         /\ IF seq.kind = "raise"
            THEN /\ final_result' = TopLevelFailure(seq.exc)
                 /\ pc' = "done"
                 /\ UNCHANGED agent_sequence
            ELSE /\ agent_sequence' = seq.value
                 /\ pc' = "execute"
                 /\ UNCHANGED final_result
  /\ UNCHANGED <<config, calls, frames, entry, user_goal, plan, inferred, pos, accumulated_data,
                 invocations, goal_achieved>>

Plan == PlanWith(Return(PlannerProcess(Dict([goal |-> user_goal]))))


\* variant: an unknown identifier ends the loop
NextPosition_stop_at_unknown(seq, position, acc) ==
  IF seq[position] \notin Registered THEN Len(seq) + 1 ELSE position + 1
\* variant: an agent that failed is tried a second time
NextPosition_retry_failed(seq, position, acc) ==
  IF /\ InList(seq[position], acc.failed_agents)
     /\ Cardinality({k \in 1..Len(acc.agents_executed) :
                       acc.agents_executed[k] = seq[position]}) = 1
  THEN position
  ELSE position + 1
\* variant: the loop is left at the first failed agent
NextPosition_break_on_failure(seq, position, acc) ==
  IF acc.failed_agents # <<>> THEN Len(seq) + 1 ELSE position + 1
\* `for agent_name in agent_sequence`: whatever the iteration recorded, the
\* loop goes on with the next identifier (no break, no return in the body)
NextPosition(seq, position, acc) == position + 1

\* one iteration of the for loop of _execute_plan (lines 163-214), the awaited
\* agent.process doing one of outcomes[agent_name]
ExecuteAgentWith(outcomes) ==
  /\ pc = "execute"
  /\ pos <= Len(agent_sequence)
  /\ LET agent_name == agent_sequence[pos]
     IN  IF agent_name \notin Registered
         THEN UNCHANGED <<accumulated_data, invocations>>
         ELSE \E outcome \in outcomes[agent_name] :
                /\ accumulated_data' = ExecuteIteration(accumulated_data, agent_name, outcome)
                /\ invocations' = Append(invocations,
                                         [agent |-> agent_name,
                                          input |-> agent_input(accumulated_data),
                                          outcome |-> outcome])
  /\ pos' = NextPosition(agent_sequence, pos, accumulated_data')
  /\ UNCHANGED <<config, calls, frames, entry, pc, user_goal, plan, inferred, plan_result, execution_plan,
                 agent_sequence, goal_achieved, final_result>>

ExecuteAgent == ExecuteAgentWith([a \in Registered |-> ProcessOutcomes(a)])

\* lines 89-96: _execute_plan returned; _check_and_iterate builds the report
CheckAndIterate ==
  /\ entry = "process_goal"
  /\ pc = "execute"
  /\ pos > Len(agent_sequence)
  /\ goal_achieved' = Bool(_assess_goal_achievement(user_goal, accumulated_data))
  /\ LET report == _check_and_iterate(user_goal, accumulated_data, execution_plan)
     IN  final_result' = IF report.kind = "raise" THEN TopLevelFailure(report.exc)
                         ELSE report.value
  /\ pc' = "done"
  /\ UNCHANGED <<config, calls, frames, entry, user_goal, plan, inferred, plan_result, execution_plan,
                 agent_sequence, pos, accumulated_data, invocations>>

Next == Plan \/ ExecuteAgent \/ CheckAndIterate
Spec == Init /\ [][Next]_vars

\* ------------------------------------------------------------------------
\* process_goal(user_goal) with agents whose successful results carry data of
\* any shape: what _create_summary reads from final_data
\* ------------------------------------------------------------------------
PyInt(n) == [type |-> "int", repr |-> n]
DataShapes ==
  [spacex  |-> {SpacexData,
                Dict(<<>>),
                Dict([launches |-> List(<<Launch>>)]),
                Dict([launches |-> List(<<>>)]),
                Dict([launches |-> List(<<Str("Starlink 12-5")>>)]),
                Dict([launches |-> PyInt("5")])},
   weather |-> {WeatherData,
                Dict([current |-> Dict([description |-> Str("clear sky")])]),
                Dict([current |-> Dict([description |-> Str("clear sky")]),
                      launch_delay_risk |-> Dict([level |-> Str("low")])]),
                Dict([current |-> Str("clear sky")]),
                Dict([current |-> Dict([description |-> Str("clear sky")]),
                      launch_delay_risk |-> Str("low")])},
   news    |-> {NewsData,
                List(<<>>),
                Dict([sentiment_analysis |-> Str("positive")]),
                Dict([sentiment_analysis |-> None])},
   market  |-> {MarketData,
                Dict([market_sentiment |-> Dict(<<>>)]),
                Dict([market_sentiment |-> Str("bullish")]),
                Dict([market_sentiment |-> Dict([overall_score |-> Str("high")])]),
                Dict([market_sentiment |-> Dict([overall_score |-> None])])}]

DataOutcomes(agent_name) ==
  {Return(Dict([success |-> TRUE, data |-> d])) : d \in DataShapes[agent_name]}
  \cup {Return(StandardError(agent_name))}

DataGoals == {GoalScenarioA, GoalScenarioB, GoalThreeAgents, K_news, K_market}

InitAnyData ==
  /\ entry = "process_goal"
  /\ config = EmptyEnvironment
  /\ calls = <<>>
  /\ frames = <<>>
  /\ pc = "plan"
  /\ user_goal \in DataGoals
  /\ plan = None
  /\ inferred = None
  /\ plan_result = None
  /\ execution_plan = None
  /\ agent_sequence = <<>>
  /\ pos = 1
  /\ accumulated_data = EmptyAccumulated(user_goal)
  /\ invocations = <<>>
  /\ goal_achieved = None
  /\ final_result = None

ExecuteAgentAnyData == ExecuteAgentWith([a \in Registered |-> DataOutcomes(a)])

NextAnyData == Plan \/ ExecuteAgentAnyData \/ CheckAndIterate
SpecAnyData == InitAnyData /\ [][NextAnyData]_vars

\* ------------------------------------------------------------------------
\* The source agents that need an API key (agents/weather_agent.py,
\* agents/news_agent.py), run by process_goal under every configuration
\* ------------------------------------------------------------------------
KeyPlaceholder == Str("your_openweather_api_key_here")
ApiKeyValues == {None, Str(""), KeyPlaceholder, Str("0123456789abcdef")}
Environments == [openweather_api_key : ApiKeyValues, newsapi_key : ApiKeyValues]
\* what the HTTP request of an agent comes to
HttpOutcomes == {"status_200", "status_401", "status_500", "connection_error"}

\* WeatherAgent.__init__: a missing or placeholder key becomes None
WeatherAgentApiKey(cfg) ==
  IF ~Truthy(cfg.openweather_api_key) \/ cfg.openweather_api_key = KeyPlaceholder
  THEN None
  ELSE cfg.openweather_api_key
\* WeatherAgent.process: the key is tested before anything is fetched; the
\* fetch raises on every status but 200 and the except turns it into an error
WeatherAgentProcess(cfg, http) ==
  IF ~Truthy(WeatherAgentApiKey(cfg))
  THEN create_error_response("WeatherAgent", FailureMessage["weather"])
  ELSE IF http = "status_200"
       THEN create_success_response("WeatherAgent", WeatherData, SuccessMessage["weather"])
       ELSE create_error_response("WeatherAgent", "Failed to fetch weather data: " \o http)

\* NewsAgent.__init__ takes the key as it is
NewsAgentApiKey(cfg) == cfg.newsapi_key
Article == Dict([title |-> Str("Starship reaches a milestone"), type |-> Str("space_news")])
\* NewsAgent._make_news_request: the articles on status 200, [] on any other
\* status and on any exception
_make_news_request(api_key, http) ==
  IF http = "status_200" THEN <<Article>> ELSE <<>>
_analyze_news_sentiment(articles) ==
  IF articles = <<>>
  THEN Dict([overall_sentiment |-> Str("neutral")])
  ELSE Dict([overall_sentiment |-> Str("positive")])
\* NewsAgent.process: the key is not tested; whatever the requests gave, the
\* news document is built and returned as a success response
NewsAgentProcess(cfg, http) ==
  LET space_news == _make_news_request(NewsAgentApiKey(cfg), http)
  IN  create_success_response("NewsAgent",
        Dict([space_news |-> List(space_news),
              sentiment_analysis |-> _analyze_news_sentiment(space_news)]),
        IF space_news = <<>> THEN SuccessMessage["news"]
        ELSE "Successfully fetched news with 1 space articles")

SourceAgentOutcomes(agent_name) ==
  CASE agent_name = "weather" ->
         {Return(WeatherAgentProcess(config, http)) : http \in HttpOutcomes}
    [] agent_name = "news" ->
         {Return(NewsAgentProcess(config, http)) : http \in HttpOutcomes}
    [] OTHER -> {Return(StandardSuccess(agent_name)), Return(StandardError(agent_name))}

SourceGoals == {GoalScenarioA, GoalThreeAgents, K_weather, K_news}

InitSourceAgents ==
  /\ entry = "process_goal"
  /\ config \in Environments
  /\ calls = <<>>
  /\ frames = <<>>
  /\ pc = "plan"
  /\ user_goal \in SourceGoals
  /\ plan = None
  /\ inferred = None
  /\ plan_result = None
  /\ execution_plan = None
  /\ agent_sequence = <<>>
  /\ pos = 1
  /\ accumulated_data = EmptyAccumulated(user_goal)
  /\ invocations = <<>>
  /\ goal_achieved = None
  /\ final_result = None

ExecuteSourceAgent == ExecuteAgentWith([a \in Registered |-> SourceAgentOutcomes(a)])

NextSourceAgents == Plan \/ ExecuteSourceAgent \/ CheckAndIterate
SpecSourceAgents == InitSourceAgents /\ [][NextSourceAgents]_vars
\* ------------------------------------------------------------------------
\* process_goal(user_goal) with a planner whose process call may do anything
\* the first step of process_goal tells apart
\* ------------------------------------------------------------------------
PlannerGoals == ScenarioGoals \cup Tokens \cup {<<>>}

PlannerOutcomes(goal) ==
  {Raise("planner crashed"),
   Return(None),
   Return(Str("not a dict")),
   Return(PlannerProcess(Dict([goal |-> goal]))),
   Return(Dict([status |-> "error", error |-> "planning failed"])),
   Return(create_plan(goal)),
   Return(Dict([agent_sequence |-> <<>>])),
   Return(Dict([success |-> TRUE, data |-> create_plan(goal)])),
   Return(Dict([success |-> TRUE, data |-> Dict([agent_sequence |-> <<>>])])),
   Return(Dict([success |-> TRUE, data |-> Dict(<<>>)])),
   Return(Dict([success |-> TRUE, data |-> Str("spacex, weather")])),
   Return(Dict([success |-> TRUE, data |-> None]))}

InitAnyPlanner ==
  /\ entry = "process_goal"
  /\ config = EmptyEnvironment
  /\ calls = <<>>
  /\ frames = <<>>
  /\ pc = "plan"
  /\ user_goal \in PlannerGoals
  /\ plan = None
  /\ inferred = None
  /\ plan_result = None
  /\ execution_plan = None
  /\ agent_sequence = <<>>
  /\ pos = 1
  /\ accumulated_data = EmptyAccumulated(user_goal)
  /\ invocations = <<>>
  /\ goal_achieved = None
  /\ final_result = None

PlanAny == \E planner_outcome \in PlannerOutcomes(user_goal) : PlanWith(planner_outcome)

NextAnyPlanner == PlanAny \/ ExecuteAgent \/ CheckAndIterate
SpecAnyPlanner == InitAnyPlanner /\ [][NextAnyPlanner]_vars
\* ------------------------------------------------------------------------
\* Two process_goal coroutines on one Orchestrator: a coroutine runs until
\* its next await (self.planner.process, agent.process) and the event loop
\* may then resume the other one
\* ------------------------------------------------------------------------
CallIds == {1, 2}
ConcurrentGoals == {GoalScenarioA, K_news}

\* variant: the execution state is a field of the Orchestrator, one for all calls
ExecutionStateOwner_instance_field(c) == 1
\* accumulated_data is a local of _execute_plan (line 155): the dict belongs
\* to the call that created it
ExecutionStateOwner(c) == c

NewCall(goal) ==
  [user_goal |-> goal, pc |-> "plan", execution_plan |-> None, agent_sequence |-> <<>>,
   pos |-> 1, agent_input |-> None, invocations |-> <<>>, final_result |-> None]

InitConcurrent ==
  /\ entry = "process_goal"
  /\ config = EmptyEnvironment
  /\ calls \in [CallIds -> {NewCall(goal) : goal \in ConcurrentGoals}]
  /\ frames = [o \in {ExecutionStateOwner(c) : c \in CallIds} |-> None]
  /\ pc = "concurrent"
  /\ user_goal = <<>>
  /\ plan = None
  /\ inferred = None
  /\ plan_result = None
  /\ execution_plan = None
  /\ agent_sequence = <<>>
  /\ pos = 1
  /\ accumulated_data = EmptyAccumulated(user_goal)
  /\ invocations = <<>>
  /\ goal_achieved = None
  /\ final_result = None

\* lines 45-86 and 155-161: the planner answered; the sequence is chosen and
\* _execute_plan creates its accumulated_data
CallPlan(c) ==
  /\ pc = "concurrent"
  /\ calls[c].pc = "plan"
  /\ LET goal == calls[c].user_goal
         result == PlanResultOf(Return(PlannerProcess(Dict([goal |-> goal]))))
         plan_used == ExecutionPlanOf(result, goal)
         seq == AgentSequenceOf(plan_used, goal)
     IN  IF seq.kind = "raise"
         THEN /\ calls' = [calls EXCEPT ![c].final_result = TopLevelFailure(seq.exc),
                                        ![c].pc = "done"]
              /\ UNCHANGED frames
         ELSE /\ calls' = [calls EXCEPT ![c].execution_plan = plan_used,
                                        ![c].agent_sequence = seq.value,
                                        ![c].pc = "loop"]
              /\ frames' = [frames EXCEPT ![ExecutionStateOwner(c)] = EmptyAccumulated(goal)]
  /\ UNCHANGED <<config, entry, pc, user_goal, plan, inferred, plan_result, execution_plan,
                 agent_sequence, pos, accumulated_data, invocations, goal_achieved,
                 final_result>>

\* lines 163-180: the loop reaches an identifier, builds agent_input and
\* awaits agent.process
CallInvoke(c) ==
  /\ pc = "concurrent"
  /\ calls[c].pc = "loop"
  /\ calls[c].pos <= Len(calls[c].agent_sequence)
  /\ LET state == frames[ExecutionStateOwner(c)]
     IN  IF calls[c].agent_sequence[calls[c].pos] \notin Registered
         THEN calls' = [calls EXCEPT ![c].pos =
                           NextPosition(calls[c].agent_sequence, calls[c].pos, state)]
         ELSE calls' = [calls EXCEPT ![c].agent_input = agent_input(state),
                                     ![c].pc = "await"]
  /\ UNCHANGED <<config, frames, entry, pc, user_goal, plan, inferred, plan_result,
                 execution_plan, agent_sequence, pos, accumulated_data, invocations,
                 goal_achieved, final_result>>

\* lines 180-214: agent.process returned or raised; the iteration records it
CallResume(c) ==
  /\ pc = "concurrent"
  /\ calls[c].pc = "await"
  /\ LET agent_name == calls[c].agent_sequence[calls[c].pos]
         owner == ExecutionStateOwner(c)
     IN  \E outcome \in ProcessOutcomes(agent_name) :
           /\ frames' = [frames EXCEPT ![owner] = ExecuteIteration(@, agent_name, outcome)]
           /\ calls' = [calls EXCEPT
                          ![c].invocations = Append(@, [agent |-> agent_name,
                                                        input |-> calls[c].agent_input,
                                                        outcome |-> outcome]),
                          ![c].agent_input = None,
                          ![c].pos = NextPosition(calls[c].agent_sequence, calls[c].pos,
                                                  frames'[owner]),
                          ![c].pc = "loop"]
  /\ UNCHANGED <<config, entry, pc, user_goal, plan, inferred, plan_result, execution_plan,
                 agent_sequence, pos, accumulated_data, invocations, goal_achieved,
                 final_result>>

\* lines 89-96: the loop is over, _check_and_iterate builds the report
CallReturn(c) ==
  /\ pc = "concurrent"
  /\ calls[c].pc = "loop"
  /\ calls[c].pos > Len(calls[c].agent_sequence)
  /\ LET report == _check_and_iterate(calls[c].user_goal, frames[ExecutionStateOwner(c)],
                                      calls[c].execution_plan)
     IN  calls' = [calls EXCEPT ![c].final_result =
                                   IF report.kind = "raise" THEN TopLevelFailure(report.exc)
                                   ELSE report.value,
                                ![c].pc = "done"]
  /\ UNCHANGED <<config, frames, entry, pc, user_goal, plan, inferred, plan_result,
                 execution_plan, agent_sequence, pos, accumulated_data, invocations,
                 goal_achieved, final_result>>

NextConcurrent ==
  \E c \in CallIds : CallPlan(c) \/ CallInvoke(c) \/ CallResume(c) \/ CallReturn(c)
SpecConcurrent == InitConcurrent /\ [][NextConcurrent]_vars

\* process_goal run alone: the loop of _execute_plan folded over the outcomes
\* of its agent calls, then the report
RECURSIVE RunLoop(_, _, _)
RunLoop(acc, seq, outcomes) ==
  IF seq = <<>> \/ (Head(seq) \in Registered /\ outcomes = <<>>) THEN acc
  ELSE IF Head(seq) \notin Registered THEN RunLoop(acc, Tail(seq), outcomes)
  ELSE RunLoop(ExecuteIteration(acc, Head(seq), Head(outcomes)), Tail(seq), Tail(outcomes))
RunAlone(goal, outcomes) ==
  LET result == PlanResultOf(Return(PlannerProcess(Dict([goal |-> goal]))))
      plan_used == ExecutionPlanOf(result, goal)
      seq == AgentSequenceOf(plan_used, goal)
  IN  IF seq.kind = "raise" THEN TopLevelFailure(seq.exc)
      ELSE LET report == _check_and_iterate(goal,
                           RunLoop(EmptyAccumulated(goal), seq.value, outcomes), plan_used)
           IN  IF report.kind = "raise" THEN TopLevelFailure(report.exc) ELSE report.value
\* ------------------------------------------------------------------------
\* _execute_plan(agent_sequence, user_goal) called with any sequence of
\* identifiers, registered or not, repeated or not
\* ------------------------------------------------------------------------
Identifiers == Registered \cup {"summary"}
AgentSequences == UNION {[1..n -> Identifiers] : n \in 0..MaxSeqLen}

InitExecutePlan ==
  /\ entry = "_execute_plan"
  /\ config = EmptyEnvironment
  /\ calls = <<>>
  /\ frames = <<>>
  /\ pc = "execute"
  /\ user_goal = GoalScenarioA
  /\ plan = None
  /\ inferred = None
  /\ plan_result = None
  /\ execution_plan = None
  /\ agent_sequence \in AgentSequences
  /\ pos = 1
  /\ accumulated_data = EmptyAccumulated(user_goal)
  /\ invocations = <<>>
  /\ goal_achieved = None
  /\ final_result = None

\* line 216: return accumulated_data
ReturnAccumulated ==
  /\ entry = "_execute_plan"
  /\ pc = "execute"
  /\ pos > Len(agent_sequence)
  /\ pc' = "returned"
  /\ UNCHANGED <<config, calls, frames, entry, user_goal, plan, inferred, plan_result, execution_plan,
                 agent_sequence, pos, accumulated_data, invocations, goal_achieved,
                 final_result>>

NextExecutePlan == ExecuteAgent \/ ReturnAccumulated
SpecExecutePlan == InitExecutePlan /\ [][NextExecutePlan]_vars
\* the loop is not abandoned: every iteration and the return are taken
FairSpecExecutePlan == SpecExecutePlan /\ WF_vars(NextExecutePlan)

\* ------------------------------------------------------------------------
\* Properties
\* ------------------------------------------------------------------------
IsRegistered(a) == a \in Registered
IsFinalReport == final_result # None /\ HasKey(final_result, "execution_chain")
ReturnedStandardSuccess(k) ==
  invocations[k].outcome = Return(StandardSuccess(invocations[k].agent))
ReturnedStandardError(k) ==
  invocations[k].outcome = Return(StandardError(invocations[k].agent))
FirstIndex(x, lst) == CHOOSE k \in 1..Len(lst) : lst[k] = x /\ \A m \in 1..(k-1) : lst[m] # x
Precedes(a, b, lst) ==
  (InList(a, lst) /\ InList(b, lst)) => FirstIndex(a, lst) < FirstIndex(b, lst)
NoRepeat(lst) == \A i, j \in 1..Len(lst) : i # j => lst[i] # lst[j]

\* C1: for the goal "Find the next SpaceX launch and check weather
\* conditions" process_goal runs spacex before weather, and when both process
\* calls return the standard success response the report's success is true.
C1_ScenarioAStandardSuccess ==
  (/\ pc = "done"
   /\ user_goal = GoalScenarioA
   /\ \A k \in 1..Len(invocations) : ReturnedStandardSuccess(k))
  => /\ IsFinalReport
     /\ InList("spacex", final_result.items.execution_chain)
     /\ InList("weather", final_result.items.execution_chain)
     /\ Precedes("spacex", "weather", final_result.items.execution_chain)
     /\ final_result.items.success = TRUE

\* C2: an agent whose process returns create_success_response(...) is in
\* successful_agents (and its data is in the report's data map); an agent
\* whose process returns create_error_response(...) is in failed_agents.
C2_StandardResponsesClassified ==
  \A k \in 1..Len(invocations) :
    /\ ReturnedStandardSuccess(k) =>
         /\ InList(invocations[k].agent, accumulated_data.successful_agents)
         /\ IsFinalReport => invocations[k].agent \in DOMAIN final_result.items.data
    /\ ReturnedStandardError(k) =>
         InList(invocations[k].agent, accumulated_data.failed_agents)

\* C3: no short-circuit. Whatever the agents return or raise, _execute_plan
\* ends having invoked every registered identifier of the sequence, in
\* sequence order, and agents_executed lists exactly those identifiers.
C3_NoShortCircuit ==
  <>(/\ pc = "returned"
     /\ accumulated_data.agents_executed = SelectSeq(agent_sequence, IsRegistered)
     /\ [k \in 1..Len(invocations) |-> invocations[k].agent]
          = SelectSeq(agent_sequence, IsRegistered))
C3_Witness ==
  /\ pc = "returned"
  /\ Len(invocations) = 3
  /\ invocations[1].outcome.kind = "raise"
  /\ ReturnedStandardError(2)
  /\ Len(accumulated_data.agents_executed) = 3

\* C4 as stated: for any sequence, repeated identifiers included, the
\* returned state has one agent_results entry per executed identifier,
\* successful_agents and failed_agents are disjoint, and their union is the
\* set of executed identifiers.
C4_PartitionAnySequence ==
  pc = "returned" =>
    /\ DOMAIN accumulated_data.agent_results = Elems(accumulated_data.agents_executed)
    /\ Elems(accumulated_data.successful_agents) \cap Elems(accumulated_data.failed_agents) = {}
    /\ Elems(accumulated_data.successful_agents) \cup Elems(accumulated_data.failed_agents)
         = Elems(accumulated_data.agents_executed)
\* C4 amended: for any sequence the returned state has one agent_results
\* entry per distinct executed identifier and the union of successful_agents
\* and failed_agents is the set of executed identifiers; the two lists are
\* disjoint when no registered identifier occurs twice in the sequence.
C4_PartitionWithoutRepeats ==
  pc = "returned" =>
    /\ DOMAIN accumulated_data.agent_results = Elems(accumulated_data.agents_executed)
    /\ Elems(accumulated_data.successful_agents) \cup Elems(accumulated_data.failed_agents)
         = Elems(accumulated_data.agents_executed)
    /\ NoRepeat(SelectSeq(agent_sequence, IsRegistered)) =>
         Elems(accumulated_data.successful_agents) \cap Elems(accumulated_data.failed_agents) = {}
C4_Witness ==
  /\ pc = "returned"
  /\ Len(agent_sequence) = 3
  /\ NoRepeat(agent_sequence)
  /\ \E k \in 1..3 : ~IsRegistered(agent_sequence[k])
  /\ accumulated_data.successful_agents # <<>>
  /\ accumulated_data.failed_agents # <<>>

\* C5: _assess_goal_achievement returns true exactly when agents_executed is
\* non-empty, at least one agent succeeded, the succeeded agents are at least
\* half of the executed ones, and the goal's 'spacex' / 'market' mention is
\* matched by that agent being in successful_agents.
C5_AssessIff ==
  goal_achieved # None =>
    LET executed == accumulated_data.agents_executed
        succeeded == accumulated_data.successful_agents
    IN  goal_achieved.bool <=>
          /\ Len(executed) > 0
          /\ Len(succeeded) >= 1
          /\ 2 * Len(succeeded) >= Len(executed)
          /\ Contains(lower(user_goal), K_spacex) => InList("spacex", succeeded)
          /\ Contains(lower(user_goal), K_market) => InList("market", succeeded)
C5_Witness ==
  /\ goal_achieved = Bool(TRUE)
  /\ Len(accumulated_data.agents_executed) = 2
  /\ Len(accumulated_data.successful_agents) = 1
  /\ Contains(lower(user_goal), K_market)

\* C6: targeted-agent override. When the goal text names spacex (or market)
\* and that agent is in failed_agents, the report's success is false, whatever
\* the success rate.
C6_TargetedOverride ==
  pc = "done" =>
    \A a \in {"spacex", "market"} :
      (/\ Contains(lower(user_goal), IF a = "spacex" THEN K_spacex ELSE K_market)
       /\ InList(a, accumulated_data.failed_agents))
      => final_result.items.success = FALSE
C6_Witness ==
  /\ pc = "done"
  /\ user_goal = GoalScenarioB
  /\ accumulated_data.failed_agents = <<"spacex">>
  /\ accumulated_data.successful_agents = <<"market">>
  /\ IsFinalReport
  /\ final_result.items.success = FALSE

\* C7: when every attempted agent failed, the report's final_summary is the
\* fixed fallback sentence and its success is false.
C7_AllFailedFallback ==
  (/\ pc = "done"
   /\ accumulated_data.successful_agents = <<>>
   /\ accumulated_data.failed_agents # <<>>)
  => /\ IsFinalReport
     /\ final_result.items.final_summary = FallbackSummary
     /\ final_result.items.success = FALSE

\* C8: for every goal, the empty one and those without keyword included,
\* create_plan's agent_sequence is non-empty and _infer_agent_sequence
\* returns a non-empty list.
C8_NeverEmptyPlan ==
  /\ plan # None => Len(PlannedSequence) > 0
  /\ inferred # None => Len(inferred.elems) > 0
C8_Witness ==
  /\ user_goal \in {<<>>, T_hello}
  /\ plan # None
  /\ inferred # None
  /\ Len(PlannedSequence) = 1
  /\ Len(inferred.elems) = 1

\* C9: an agent whose keyword set has a keyword in the lower-cased goal is in
\* the sequence built from that table, by create_plan for the planner's table
\* and by _infer_agent_sequence for the orchestrator's.
PlannerKeywordTable ==
  [spacex |-> PlannerSpacexKeywords, weather |-> PlannerWeatherKeywords,
   news |-> PlannerNewsKeywords, analysis |-> PlannerAnalysisKeywords,
   summary |-> PlannerSummaryKeywords]
OrchKeywordTable ==
  [spacex |-> OrchSpacexKeywords, weather |-> OrchWeatherKeywords,
   news |-> OrchNewsKeywords, market |-> OrchMarketKeywords]
C9_MatchedAgentIncluded ==
  /\ plan # None =>
       \A a \in DOMAIN PlannerKeywordTable :
         AnyKeyword(lower(user_goal), PlannerKeywordTable[a]) => InList(a, PlannedSequence)
  /\ inferred # None =>
       \A a \in DOMAIN OrchKeywordTable :
         AnyKeyword(lower(user_goal), OrchKeywordTable[a]) => InList(a, inferred.elems)
C9_Witness ==
  /\ user_goal = K_weather \o T_MARKET
  /\ plan # None
  /\ inferred # None
  /\ PlannedSequence = <<"weather", "news", "summary">>
  /\ inferred.elems = <<"weather", "market">>

\* C10: create_plan's agent_sequence has no identifier twice, has spacex
\* before weather, weather first when spacex is absent, news after spacex and
\* weather, analysis after spacex, weather and news, and summary last.
C10_FixedOrder ==
  plan # None =>
    LET seq == PlannedSequence
    IN  /\ NoRepeat(seq)
        /\ Precedes("spacex", "weather", seq)
        /\ (InList("weather", seq) /\ ~InList("spacex", seq)) => seq[1] = "weather"
        /\ Precedes("spacex", "news", seq) /\ Precedes("weather", "news", seq)
        /\ Precedes("spacex", "analysis", seq) /\ Precedes("weather", "analysis", seq)
        /\ Precedes("news", "analysis", seq)
        /\ seq # <<>> /\ seq[Len(seq)] = "summary"
C10_Witness ==
  /\ plan # None
  /\ PlannedSequence = <<"weather", "news", "analysis", "summary">>

\* C11: every identifier of an agent_sequence the planner produced, by
\* create_plan or by refine_plan, is an agent registered in the orchestrator's
\* self.agents.
C11_PlannedAgentsRegistered ==
  plan # None => \A k \in 1..Len(PlannedSequence) : PlannedSequence[k] \in Registered

\* C12: whatever the planner's process call does, process_goal goes on to
\* execution with a non-empty agent sequence and ends with a FinalReport,
\* never with the top-level failure structure.
C12_PlanningNeverFatal ==
  /\ pc = "execute" => agent_sequence # <<>>
  /\ pc = "done" => (IsFinalReport /\ agent_sequence # <<>>)

\* C13: with the shipped planner, the sequence process_goal executes is the
\* agent_sequence create_plan computes for the goal.
C13_PlannedPathUsed ==
  pc \in {"execute", "done"} =>
    agent_sequence = create_plan(user_goal).items.agent_sequence

\* C14: for every goal, create_plan and _infer_agent_sequence select the same
\* agents among spacex, weather, news and market, in the same order.
IsDataAgent(a) == a \in {"spacex", "weather", "news", "market"}
C14_SameInference ==
  (plan # None /\ inferred # None) =>
    SelectSeq(PlannedSequence, IsDataAgent) = SelectSeq(inferred.elems, IsDataAgent)

Count(x, lst) == Cardinality({k \in 1..Len(lst) : lst[k] = x})
InvokedAgents == [k \in 1..Len(invocations) |-> invocations[k].agent]

\* C15: an identifier that is not in the registry is never executed: it is
\* in none of agents_executed, successful_agents, failed_agents and
\* agent_results, its process is never called, and the registered identifiers
\* after it are still executed.
C15_UnknownSkipped ==
  /\ \A a \in Elems(agent_sequence) \ Registered :
       /\ ~InList(a, accumulated_data.agents_executed)
       /\ ~InList(a, accumulated_data.successful_agents)
       /\ ~InList(a, accumulated_data.failed_agents)
       /\ a \notin DOMAIN accumulated_data.agent_results
       /\ ~InList(a, InvokedAgents)
  /\ pc = "returned" =>
       \A i \in 1..Len(agent_sequence) :
         IsRegistered(agent_sequence[i]) =>
           /\ InList(agent_sequence[i], accumulated_data.agents_executed)
           /\ agent_sequence[i] \in DOMAIN accumulated_data.agent_results
C15_Witness ==
  /\ pc = "returned"
  /\ agent_sequence = <<"summary", "spacex", "weather">>
  /\ accumulated_data.agents_executed = <<"spacex", "weather">>
  /\ DOMAIN accumulated_data.agent_results = {"spacex", "weather"}

\* C16: within one process_goal call no registered agent's process is called
\* twice: one pass over the sequence, no retry of a failed agent, no
\* re-execution after the assessment.
C16_AtMostOnce ==
  /\ NoRepeat(InvokedAgents)
  /\ Len(invocations) <= Len(agent_sequence)
  /\ pc = "done" => InvokedAgents = agent_sequence
C16_Witness ==
  /\ pc = "done"
  /\ IsFinalReport
  /\ Len(invocations) = 3
  /\ ReturnedStandardError(1)
  /\ invocations[2].outcome.kind = "raise"
  /\ final_result.items.success = FALSE

\* C17: the previous_results passed to the k-th executed agent holds exactly
\* the results of the k-1 agents executed before it, failed ones included,
\* and not the agent's own result.
C17_FullHistory ==
  \A k \in 1..Len(invocations) :
    LET previous_results == invocations[k].input.items.previous_results
    IN  /\ DOMAIN previous_results = {invocations[j].agent : j \in 1..(k - 1)}
        /\ \A j \in 1..(k - 1) :
             previous_results[invocations[j].agent]
               = accumulated_data.agent_results[invocations[j].agent]
        /\ invocations[k].agent \notin DOMAIN previous_results
C17_Witness ==
  /\ Len(invocations) = 3
  /\ ReturnedStandardError(1)
  /\ invocations[2].outcome = Return(FlaggedSuccess(invocations[2].agent))
  /\ DOMAIN invocations[3].input.items.previous_results
       = {invocations[1].agent, invocations[2].agent}

\* C18: when agent X produced data earlier in the sequence,
\* extract_previous_data(input, X) on the input the orchestrator built for a
\* later agent returns X's data.
C18_ContextThreading ==
  \A k \in 1..Len(invocations) : \A j \in 1..(k - 1) :
    LET x == invocations[j].agent
        produced == accumulated_data.agent_results[x]
    IN  (HasKey(produced, "data") /\ produced.items.data # None) =>
          extract_previous_data(invocations[k].input, x) = produced.items.data

\* C19: when a registered agent's process raises, the agent is once in
\* agents_executed and once in failed_agents, its stored result is a failure
\* whose error is the exception's text, and process_goal still ends with a
\* FinalReport.
C19_RaiseLocalised ==
  \A k \in 1..Len(invocations) :
    invocations[k].outcome.kind = "raise" =>
      LET a == invocations[k].agent
      IN  /\ Count(a, accumulated_data.agents_executed) = 1
          /\ Count(a, accumulated_data.failed_agents) = 1
          /\ ~InList(a, accumulated_data.successful_agents)
          /\ accumulated_data.agent_results[a]
               = Dict([success |-> FALSE, error |-> invocations[k].outcome.exc, agent |-> a])
          /\ pc = "done" => (IsFinalReport /\ final_result.items.errors[a] = invocations[k].outcome.exc)
C19_Witness ==
  /\ pc = "done"
  /\ IsFinalReport
  /\ Len(invocations) = 2
  /\ invocations[1].outcome.kind = "raise"
  /\ invocations[2].outcome = Return(FlaggedSuccess(invocations[2].agent))
  /\ accumulated_data.failed_agents = <<invocations[1].agent>>

\* C20: for every goal and every combination of agent outcomes process_goal
\* ends with a report that carries goal, execution_chain, successful_agents,
\* failed_agents, data, errors, success, final_summary and agent_details; with
\* no successful agent its success is false.
ReportKeys ==
  {"goal", "execution_chain", "successful_agents", "failed_agents", "data", "errors",
   "success", "final_summary", "agent_details"}
C20_AlwaysWellFormedReport ==
  pc = "done" =>
    /\ IsFinalReport
    /\ ReportKeys \subseteq DOMAIN final_result.items
    /\ final_result.items.goal = user_goal
    /\ final_result.items.execution_chain = accumulated_data.agents_executed
    /\ final_result.items.successful_agents = <<>> => final_result.items.success = FALSE
C20_Witness ==
  /\ pc = "done"
  /\ user_goal = T_hello
  /\ IsFinalReport
  /\ ReportKeys \subseteq DOMAIN final_result.items
  /\ final_result.items.successful_agents = <<>>
  /\ final_result.items.failed_agents = <<"spacex">>
  /\ final_result.items.success = FALSE

\* C21: in every FinalReport the data map is keyed by exactly the
\* successful_agents, the errors map by exactly the failed_agents, the two key
\* sets are disjoint, and execution_chain is the attempted identifiers in
\* execution order, a subsequence of the planned sequence.
C21_ReportPartition ==
  IsFinalReport =>
    LET report == final_result.items
    IN  /\ DOMAIN report.data = Elems(report.successful_agents)
        /\ DOMAIN report.errors = Elems(report.failed_agents)
        /\ DOMAIN report.data \cap DOMAIN report.errors = {}
        /\ report.execution_chain = InvokedAgents
        /\ report.execution_chain = SelectSeq(agent_sequence, IsRegistered)
C21_Witness ==
  /\ IsFinalReport
  /\ agent_sequence = <<"spacex", "weather", "news", "summary">>
  /\ final_result.items.execution_chain = <<"spacex", "weather", "news">>
  /\ DOMAIN final_result.items.data = {"weather"}
  /\ DOMAIN final_result.items.errors = {"spacex", "news"}

\* C22: when spacex succeeded with a non-empty list of launches as its data,
\* the summary has the 'Next SpaceX Launch' clause naming the first launch.
C22_SpacexHeadline ==
  (/\ IsFinalReport
   /\ "spacex" \in DOMAIN final_result.items.data
   /\ final_result.items.data["spacex"].type = "list"
   /\ Len(final_result.items.data["spacex"].elems) > 0)
  => \E k \in 1..Len(final_result.items.final_summary) :
       LET clause == final_result.items.final_summary[k]
       IN  /\ clause.head = "Next SpaceX Launch: {name} on {date_utc}"
           /\ clause.body[1] = final_result.items.data["spacex"].elems[1].items.name

\* C23: _create_summary never raises: whatever the shape of the data a
\* successful agent returned, process_goal ends with a report whose
\* final_summary is text, never with the top-level failure.
SucceededWith(a) ==
  \E k \in 1..Len(invocations) :
    /\ invocations[k].agent = a
    /\ Get(invocations[k].outcome.value, "success", FALSE) = TRUE
C23_SummaryNeverRaises ==
  (pc = "done" /\ \E a \in Registered : SucceededWith(a)) =>
    /\ IsFinalReport
    /\ Len(final_result.items.final_summary) > 0

\* C24: for any original plan, wherever 'summary' occurs in its sequence or
\* not at all, and any prior result, the plan refine_plan returns has
\* 'summary' as the last element of its agent_sequence.
Last(lst) == lst[Len(lst)]
C24_SummaryAtTail ==
  (entry = "refine_plan" /\ pc = "done") =>
    /\ PlannedSequence # <<>>
    /\ Last(PlannedSequence) = "summary"

\* C28: planner padding: with fewer than two keyword candidates summary is
\* added, and weather too when spacex is the only candidate; so the sequence
\* of every create_plan has 'summary' exactly once, and a goal that matches
\* only spacex keywords gets exactly [spacex, weather, summary].
MatchedCandidates(goal) ==
  {a \in DOMAIN PlannerKeywordTable : AnyKeyword(lower(goal), PlannerKeywordTable[a])}
IsCreatedPlan == plan # None /\ ~HasKey(plan, "refinement_reason")
C28_PlannerPadding ==
  IsCreatedPlan =>
    /\ Count("summary", PlannedSequence) = 1
    /\ Cardinality(MatchedCandidates(user_goal)) < 2 =>
         InList("summary", _analyze_goal_requirements(user_goal))
    /\ MatchedCandidates(user_goal) = {"spacex"} =>
         /\ InList("weather", _analyze_goal_requirements(user_goal))
         /\ PlannedSequence = <<"spacex", "weather", "summary">>
C28_Witness ==
  /\ IsCreatedPlan
  /\ user_goal = T_SpaceX
  /\ MatchedCandidates(user_goal) = {"spacex"}
  /\ PlannedSequence = <<"spacex", "weather", "summary">>

\* C27: for each goal of the evaluation harness's test cases the
\* execution_chain of the report contains every agent of that case's
\* expected_agents.
EvaluationGoals == {GoalScenarioA, GoalComplexChain, GoalMarketAnalysis}
expected_agents(goal) ==
  CASE goal = GoalScenarioA -> <<"spacex", "weather">>
    [] goal = GoalComplexChain -> <<"spacex", "weather", "news">>
    [] goal = GoalMarketAnalysis -> <<"spacex", "market", "news">>
C27_ExpectedAgentsExecuted ==
  (IsFinalReport /\ user_goal \in EvaluationGoals) =>
    \A k \in 1..Len(expected_agents(user_goal)) :
      InList(expected_agents(user_goal)[k], final_result.items.execution_chain)

\* C29: in any report of process_goal, final_summary is the fixed fallback
\* sentence if and only if execution_chain is empty; when at least one agent
\* was attempted the summary begins with a 'Successfully executed:' or a
\* 'Failed agents:' clause.
C29_FallbackIffNothingAttempted ==
  IsFinalReport =>
    LET report == final_result.items
    IN  /\ (report.final_summary = FallbackSummary) <=> (report.execution_chain = <<>>)
        /\ report.execution_chain # <<>> =>
             report.final_summary[1].head \in {"Successfully executed: {}", "Failed agents: {}"}
C29_Witness ==
  /\ IsFinalReport
  /\ agent_sequence = <<"summary">>
  /\ final_result.items.execution_chain = <<>>
  /\ final_result.items.final_summary = FallbackSummary
C29_WitnessAttempted ==
  /\ IsFinalReport
  /\ final_result.items.successful_agents = <<>>
  /\ final_result.items.failed_agents # <<>>
  /\ final_result.items.final_summary[1].head = "Failed agents: {}"

\* C30: when a registered agent's process returns a value that is not a dict,
\* _execute_plan stores a failure result in its place (success false, the
\* 'invalid result format' error), lists the agent once in agents_executed and
\* once in failed_agents, and goes on with the next identifier.
ReturnedNonDict(k) ==
  /\ invocations[k].outcome.kind = "return"
  /\ ~isinstance_dict(invocations[k].outcome.value)
C30_InvalidResultReplaced ==
  \A k \in 1..Len(invocations) :
    ReturnedNonDict(k) =>
      LET a == invocations[k].agent
          stored == accumulated_data.agent_results[a]
      IN  /\ isinstance_dict(stored)
          /\ stored.items.success = FALSE
          /\ stored.items.error = InvalidFormatError[a]
          /\ stored.items.raw_result = invocations[k].outcome.value
          /\ Count(a, accumulated_data.agents_executed) = 1
          /\ Count(a, accumulated_data.failed_agents) = 1
          /\ ~InList(a, accumulated_data.successful_agents)
          /\ pos > k
          /\ pc = "done" => Len(invocations) = Len(agent_sequence)
C30_Witness ==
  /\ pc = "done"
  /\ Len(invocations) = 3
  /\ ReturnedNonDict(1)
  /\ ReturnedStandardSuccess(2)
  /\ ReturnedNonDict(3)
  /\ accumulated_data.failed_agents = <<"spacex", "weather", "news">>

\* C25: when the API key of a source agent is absent from the configuration
\* (OPENWEATHER_API_KEY for weather, NEWSAPI_KEY for news), the agent's
\* process returns a create_error_response result without raising, and the
\* orchestrator lists the agent in failed_agents.
KeyAbsent(agent_name) ==
  CASE agent_name = "weather" -> config.openweather_api_key = None
    [] agent_name = "news" -> config.newsapi_key = None
    [] OTHER -> FALSE
IsErrorResponse(v) ==
  isinstance_dict(v) /\ Get(v, "status", "") = "error" /\ HasKey(v, "error")
C25_MissingKeyFailure ==
  \A k \in 1..Len(invocations) :
    KeyAbsent(invocations[k].agent) =>
      /\ invocations[k].outcome.kind = "return"
      /\ IsErrorResponse(invocations[k].outcome.value)
      /\ InList(invocations[k].agent, accumulated_data.failed_agents)

\* C26: two process_goal calls running concurrently on one Orchestrator,
\* interleaved at any agent-call boundary, share no mutable state: the
\* ExecutionState of each call holds only what its own agent invocations
\* produced, and each call's report is the report it gives when run alone
\* with the same agent outcomes.
OutcomesOf(c) == [k \in 1..Len(calls[c].invocations) |-> calls[c].invocations[k].outcome]
C26_CallsIndependent ==
  pc = "concurrent" =>
    \A c \in CallIds :
      LET call == calls[c]
          state == frames[ExecutionStateOwner(c)]
      IN  /\ call.pc \in {"loop", "await"} =>
                /\ state.goal = call.user_goal
                /\ state.agents_executed =
                     [k \in 1..Len(call.invocations) |-> call.invocations[k].agent]
                /\ state = RunLoop(EmptyAccumulated(call.user_goal), call.agent_sequence,
                                   OutcomesOf(c))
          /\ call.pc = "await" => call.agent_input = agent_input(state)
          /\ call.pc = "done" => call.final_result = RunAlone(call.user_goal, OutcomesOf(c))
C26_Witness ==
  /\ pc = "concurrent"
  /\ calls[1].pc = "await" /\ Len(calls[1].invocations) = 1
  /\ calls[2].pc = "await" /\ Len(calls[2].invocations) = 1
  /\ calls[1].user_goal = calls[2].user_goal
  /\ calls[1].invocations[1].outcome = Return(FlaggedSuccess("spacex"))
  /\ calls[2].invocations[1].outcome = Raise("agent crashed")
C26_WitnessDone ==
  /\ pc = "concurrent"
  /\ calls[1].pc = "done" /\ calls[2].pc = "done"
  /\ calls[1].final_result # calls[2].final_result
  /\ calls[1].user_goal = calls[2].user_goal
====
